---- MODULE Spec2Model ----
(***************************************************************************)
(* colorbear: the spinner's start/stop/update protocol (spinner.go) and    *)
(* the colour decision it reads (detect.go, colors.go).                    *)
(* The colour decision is also modelled on its own: goroutines that call   *)
(* ForceColors and isColorEnabled under the package's RWMutex, and a host  *)
(* program that changes environment variables between calls.               *)
(*                                                                         *)
(* A Go string is a sequence of one-byte tokens, so len() is Len().        *)
(* Callers are the goroutines of the host program that call the Spinner's  *)
(* methods; tasks are the goroutines Start launches.  Every statement that *)
(* touches shared state or blocks is a step of its own; time (the ticker,  *)
(* the 10 ms sleep) is abstracted to nondeterminism: a sleep simply ends,  *)
(* a tick may be ready whenever the task is at its select.                 *)
(***************************************************************************)
EXTENDS Integers, Sequences, FiniteSets, TLC

\* ------------------------------------------------------------------ bounds
NumCallers == 2
MaxTasks == 2
\* goroutines that call ForceColors and isColorEnabled concurrently
NumProcs == 2
\* references to Style objects the program holds
MaxRefs == 4
\* largest value passed to ProgressBar.Set and ProgressBar.Add
MaxProgress == 4
\* columns and rows of a table
MaxCols == 2
MaxRows == 2

Callers == 1..NumCallers
Tasks == 1..MaxTasks
Procs == 1..NumProcs

\* -------------------------------------------------------------- constants
\* make(chan bool, 1)
StopCap == 1
\* len(s.message)+10
ClearMargin == 10
\* width: 40 in NewProgress
DefaultWidth == 40
\* Padding: 1 in NewTable
Padding == 1

ESC == "ESC"
CR == "CR"
SP == " "
Reset == <<ESC, "[", "0", "m">>
CyanCode == <<ESC, "[", "3", "6", "m">>
RedCode == <<ESC, "[", "3", "1", "m">>
GreenCode == <<ESC, "[", "3", "2", "m">>
Bold == <<ESC, "[", "1", "m">>
WhiteCode == <<ESC, "[", "3", "7", "m">>

\* message strings the callers pass (the empty string among them)
Msgs == {<<>>, <<"o", "k">>}
\* the message a Spinner is constructed with
InitMsgs == {<<"o", "k">>}

\* frame lists a Spinner can be constructed with
CustomFrameLists == { <<>>, << <<"A">> >>, << <<"A">>, <<"B">>, <<"C">> >> }
FrameLists == CustomFrameLists

\* the environment the spinner is run in: a terminal, no CI, not Windows
TermEnv == [tty |-> TRUE, ci |-> "", goos |-> "linux", term |-> <<>>, wt |-> "",
            nocolor |-> ""]

\* values of the environment variables TERM, CI, NO_COLOR and WT_SESSION
Terms == { <<>>, <<"d", "u", "m", "b">>, <<"x", "t", "e", "r", "m">>,
           <<"s", "c", "r", "e", "e", "n", "-", "2", "5", "6", "c", "o", "l", "o", "r">> }
CIValues == {"", "true", "1", "yes"}
NoColorValues == {"", "1"}
SessionValues == {"", "s"}
\* the environments a process can be started in
Envs == [tty : BOOLEAN, ci : CIValues, goos : {"linux", "windows"}, term : Terms,
         wt : SessionValues, nocolor : NoColorValues]

\* a goroutine of the colour decision: where it is, the call it is making
\* and its argument, its local copy fc, the value it returns, and the
\* override values that were current at some moment of its call
NoProc == [pc |-> "idle", op |-> "none", arg |-> FALSE, fc |-> <<>>, res |-> FALSE,
           adm |-> {}]
\* sync.RWMutex: the goroutines holding it for writing and for reading
RWFree == [w |-> {}, r |-> {}]

Free == <<>>
CallerId(c) == <<"caller", c>>
TaskId(t) == <<"task", t>>

\* what a call has done so far: whether it found the state it acts on
\* ("performed") or not ("noop"), the run (task id) it started or stopped, the
\* stop-signal sends it has executed and how many of them put a signal in the
\* channel, the erasing writes it has executed, its local clearLength, and the
\* formatter calls it has made
NoCall == [did |-> "none", tgt |-> 0, sent |-> 0, queued |-> 0, erased |-> 0,
           clearLength |-> 0, fmt |-> <<>>]

\* no ProgressBar, no Table, no formatting call made
NoBar == [made |-> FALSE]
NoTable == [made |-> FALSE]
NoProbe == [fn |-> "none"]

VARIABLES
    frames, message, current, stop, running, mu, color, lastOutput,
    forceColors, noColor, env, rwmu, dproc,
    styleHeap, styleRefs, pb, table, probe,
    pc, op, arg, tpc, launched,
    out, crashed,
    call, stops, cursorOut

spinnerVars == <<frames, message, current, stop, running, mu, color, lastOutput>>
colorVars == <<forceColors, noColor, env, rwmu, dproc>>
\* the other components: Style objects and the references the program holds
\* to them, a ProgressBar, a Table, and the last call of a formatting function
compVars == <<styleHeap, styleRefs, pb, table, probe>>
vars == <<frames, message, current, stop, running, mu, color, lastOutput,
          forceColors, noColor, env, rwmu, dproc, styleHeap, styleRefs, pb,
          table, probe, pc, op, arg, tpc, launched, out, crashed, call, stops,
          cursorOut>>

\* ------------------------------------------------------------ pure helpers
maxInt(a, b) == IF a > b THEN a ELSE b

RECURSIVE Repeat(_, _)
Repeat(ch, n) == IF n <= 0 THEN <<>> ELSE <<ch>> \o Repeat(ch, n - 1)

RECURSIVE Concat(_)
Concat(codes) == IF codes = <<>> THEN <<>> ELSE Head(codes) \o Concat(Tail(codes))

Contains(s, sub) ==
    \E i \in 0..(Len(s) - Len(sub)) : SubSeq(s, i + 1, i + Len(sub)) = sub

\* ---------------------------------------------------------------- detect.go
isTerminal == env.tty

isCI == env.ci = "true" \/ env.ci = "1"

isWindowsColorSupported ==
    \/ Contains(env.term, <<"x", "t", "e", "r", "m">>)
    \/ Contains(env.term, <<"2", "5", "6", "c", "o", "l", "o", "r">>)
    \/ env.wt # ""

\* mutant: the terminal test is left out
colorDecisionNoTTY(fc) ==
    IF fc # <<>> THEN fc[1]
    ELSE IF noColor THEN FALSE
    ELSE IF isCI THEN FALSE
    ELSE IF env.goos = "windows" THEN isWindowsColorSupported
    ELSE TRUE

\* mutant: NO_COLOR is tested before the override
colorDecisionNoColorFirst(fc) ==
    IF noColor THEN FALSE
    ELSE IF fc # <<>> THEN fc[1]
    ELSE IF ~isTerminal THEN FALSE
    ELSE IF isCI THEN FALSE
    ELSE IF env.goos = "windows" THEN isWindowsColorSupported
    ELSE TRUE

\* mutant: NO_COLOR is read from the environment at every call
colorDecisionLiveNoColor(fc) ==
    IF fc # <<>> THEN fc[1]
    ELSE IF env.nocolor # "" THEN FALSE
    ELSE IF ~isTerminal THEN FALSE
    ELSE IF isCI THEN FALSE
    ELSE IF env.goos = "windows" THEN isWindowsColorSupported
    ELSE TRUE

\* isColorEnabled after its locked read: the decision from the local copy fc
colorDecision(fc) ==
    IF fc # <<>> THEN fc[1]
    ELSE IF noColor THEN FALSE
    ELSE IF ~isTerminal THEN FALSE
    ELSE IF isCI THEN FALSE
    ELSE IF env.goos = "windows" THEN isWindowsColorSupported
    ELSE TRUE

\* a call of isColorEnabled taken as one step (the spinner's tasks)
isColorEnabled == colorDecision(forceColors)

\* ---------------------------------------------------------------- colors.go
\* mutant: the reset code is left out
colorizeNoReset(text, codes) ==
    IF ~isColorEnabled THEN text ELSE Concat(codes) \o text

colorize(text, codes) ==
    IF ~isColorEnabled THEN text ELSE Concat(codes) \o text \o Reset

\* ------------------------------------------------------------------ output
\* One write call on the output stream (fmt.Fprint, fmt.Println); out is the
\* kind of the chunk written last.
Write(kind) == out' = kind

\* --------------------------------------------------------------- NewSpinner
Init ==
    /\ frames \in FrameLists
    /\ message \in InitMsgs
    /\ current = 0
    /\ stop = 0
    /\ running = FALSE
    /\ mu = Free
    /\ color = CyanCode
    /\ lastOutput = <<>>
    /\ forceColors \in {<<>>, <<FALSE>>}
    /\ noColor = FALSE
    /\ env \in {TermEnv}
    /\ rwmu = RWFree
    /\ dproc = [p \in Procs |-> NoProc]
    /\ styleHeap = <<>>
    /\ styleRefs = <<>>
    /\ pb = NoBar
    /\ table = NoTable
    /\ probe = NoProbe
    /\ pc = [c \in Callers |-> "idle"]
    /\ op = [c \in Callers |-> "none"]
    /\ arg = [c \in Callers |-> <<>>]
    /\ tpc = [t \in Tasks |-> "none"]
    /\ launched = 0
    /\ out = "none"
    /\ crashed = FALSE
    /\ call = [c \in Callers |-> NoCall]
    /\ stops = [t \in Tasks |-> 0]
    /\ cursorOut = [t \in Tasks |-> "none"]

\* -------------------------------------------------------------------- calls
\* A caller makes a call: every method begins with s.mu.Lock(), which blocks
\* while the mutex is held.  A Start is made only while a task id is left.
Invoke(c, o, m, to) ==
    /\ ~crashed
    /\ pc[c] = "idle"
    /\ mu = Free
    /\ mu' = CallerId(c)
    /\ op' = [op EXCEPT ![c] = o]
    /\ arg' = [arg EXCEPT ![c] = m]
    /\ pc' = [pc EXCEPT ![c] = to]
    /\ UNCHANGED <<frames, message, current, stop, running, color, lastOutput,
                   colorVars, compVars, tpc, launched, out, crashed, call, stops, cursorOut>>

\* The call returns to its caller.
Return(c) ==
    /\ ~crashed
    /\ pc[c] = "ret"
    /\ pc' = [pc EXCEPT ![c] = "idle"]
    /\ op' = [op EXCEPT ![c] = "none"]
    /\ arg' = [arg EXCEPT ![c] = <<>>]
    /\ call' = [call EXCEPT ![c] = NoCall]
    /\ UNCHANGED <<spinnerVars, colorVars, compVars, tpc, launched, out, crashed, stops, cursorOut>>

\* -------------------------------------------------------------------- Start
\* MaxTasks bounds the number of runs: the caller holds the lock from here to
\* StartCheck, so no other call can flip running in between
StartLock(c) ==
    /\ running \/ launched < MaxTasks
    /\ Invoke(c, "Start", <<>>, "Start_cs")

\* mutant: Start without the "already running" test
StartCheckNoGuard(c) ==
    /\ ~crashed
    /\ pc[c] = "Start_cs"
    /\ mu' = Free
    /\ running' = TRUE
    /\ launched' = launched + 1
    /\ pc' = [pc EXCEPT ![c] = "Start_go"]
    /\ call' = [call EXCEPT ![c].did = "performed", ![c].tgt = launched + 1]
    /\ UNCHANGED <<frames, message, current, stop, color, lastOutput,
                   colorVars, compVars, op, arg, tpc, out, crashed, stops, cursorOut>>

StartCheck(c) ==
    /\ ~crashed
    /\ pc[c] = "Start_cs"
    /\ mu' = Free
    /\ IF running
       THEN /\ pc' = [pc EXCEPT ![c] = "ret"]
            /\ call' = [call EXCEPT ![c].did = "noop"]
            /\ UNCHANGED <<running, launched>>
       ELSE /\ running' = TRUE
            /\ launched' = launched + 1
            /\ pc' = [pc EXCEPT ![c] = "Start_go"]
            /\ call' = [call EXCEPT ![c].did = "performed", ![c].tgt = launched + 1]
    /\ UNCHANGED <<frames, message, current, stop, color, lastOutput,
                   colorVars, compVars, op, arg, tpc, out, crashed, stops, cursorOut>>

\* the go statement: the rendering task exists from here on
StartGo(c) ==
    /\ ~crashed
    /\ pc[c] = "Start_go"
    /\ tpc' = [tpc EXCEPT ![call[c].tgt] = "spawned"]
    /\ pc' = [pc EXCEPT ![c] = "ret"]
    /\ UNCHANGED <<spinnerVars, colorVars, compVars, op, arg, launched, out, crashed, call, stops, cursorOut>>

\* ----------------------------------------------------- Stop, StopWithError
StopLock(c) ==
    \E o \in {"Stop", "StopWithError"} : \E m \in Msgs : Invoke(c, o, m, "Stop_cs")

\* mutant: Stop without the "not running" test
StopCheckNoGuard(c) ==
    /\ ~crashed
    /\ pc[c] = "Stop_cs"
    /\ mu' = Free
    /\ running' = FALSE
    /\ pc' = [pc EXCEPT ![c] = "Stop_send"]
    /\ call' = [call EXCEPT ![c].did = "performed", ![c].tgt = launched]
    /\ stops' = [t \in Tasks |-> IF t = launched THEN stops[t] + 1 ELSE stops[t]]
    /\ UNCHANGED <<frames, message, current, stop, color, lastOutput,
                   colorVars, compVars, op, arg, tpc, launched, out, crashed, cursorOut>>

\* mutant: Stop that signals before it tests "not running"
StopCheckSignalsFirst(c) ==
    /\ ~crashed
    /\ pc[c] = "Stop_cs"
    /\ mu' = Free
    /\ stop' = IF stop < StopCap THEN stop + 1 ELSE stop
    /\ IF ~running
       THEN /\ pc' = [pc EXCEPT ![c] = "ret"]
            /\ call' = [call EXCEPT ![c].did = "noop"]
            /\ UNCHANGED <<running, stops>>
       ELSE /\ running' = FALSE
            /\ pc' = [pc EXCEPT ![c] = "Stop_send"]
            /\ call' = [call EXCEPT ![c].did = "performed", ![c].tgt = launched]
            /\ stops' = [stops EXCEPT ![launched] = @ + 1]
    /\ UNCHANGED <<frames, message, current, color, lastOutput,
                   colorVars, compVars, op, arg, tpc, launched, out, crashed, cursorOut>>

StopCheck(c) ==
    /\ ~crashed
    /\ pc[c] = "Stop_cs"
    /\ mu' = Free
    /\ IF ~running
       THEN /\ pc' = [pc EXCEPT ![c] = "ret"]
            /\ call' = [call EXCEPT ![c].did = "noop"]
            /\ UNCHANGED <<running, stops>>
       ELSE /\ running' = FALSE
            /\ pc' = [pc EXCEPT ![c] = "Stop_send"]
            /\ call' = [call EXCEPT ![c].did = "performed", ![c].tgt = launched]
            /\ stops' = [stops EXCEPT ![launched] = @ + 1]
    /\ UNCHANGED <<frames, message, current, stop, color, lastOutput,
                   colorVars, compVars, op, arg, tpc, launched, out, crashed, cursorOut>>

\* mutant: the stop signal is never put in the channel
StopSendNothing(c) ==
    /\ ~crashed
    /\ pc[c] = "Stop_send"
    /\ call' = [call EXCEPT ![c].sent = @ + 1]
    /\ pc' = [pc EXCEPT ![c] = "Stop_sleep"]
    /\ UNCHANGED <<frames, message, current, stop, running, mu, color, lastOutput,
                   colorVars, compVars, op, arg, tpc, launched, out, crashed, stops, cursorOut>>

\* mutant: a blocking send, s.stop <- true
StopSendBlocks(c) ==
    /\ ~crashed
    /\ pc[c] = "Stop_send"
    /\ stop < StopCap
    /\ stop' = stop + 1
    /\ call' = [call EXCEPT ![c].sent = @ + 1, ![c].queued = @ + 1]
    /\ pc' = [pc EXCEPT ![c] = "Stop_sleep"]
    /\ UNCHANGED <<frames, message, current, running, mu, color, lastOutput,
                   colorVars, compVars, op, arg, tpc, launched, out, crashed, stops, cursorOut>>

\* select { case s.stop <- true: default: }, then time.Sleep begins
StopSend(c) ==
    /\ ~crashed
    /\ pc[c] = "Stop_send"
    /\ stop' = IF stop < StopCap THEN stop + 1 ELSE stop
    /\ call' = [call EXCEPT ![c].sent = @ + 1,
                            ![c].queued = IF stop < StopCap THEN @ + 1 ELSE @]
    /\ pc' = [pc EXCEPT ![c] = "Stop_sleep"]
    /\ UNCHANGED <<frames, message, current, running, mu, color, lastOutput,
                   colorVars, compVars, op, arg, tpc, launched, out, crashed, stops, cursorOut>>

\* the sleep ends, whatever the task has done meanwhile; s.mu.Lock()
StopWake(c) ==
    /\ ~crashed
    /\ pc[c] = "Stop_sleep"
    /\ mu = Free
    /\ mu' = CallerId(c)
    /\ pc' = [pc EXCEPT ![c] = "Stop_cs2"]
    /\ UNCHANGED <<frames, message, current, stop, running, color, lastOutput,
                   colorVars, compVars, op, arg, tpc, launched, out, crashed, call, stops, cursorOut>>

StopClear(c) ==
    /\ ~crashed
    /\ pc[c] = "Stop_cs2"
    /\ call' = [call EXCEPT ![c].clearLength =
                   maxInt(Len(lastOutput), Len(message) + ClearMargin)]
    /\ mu' = Free
    /\ pc' = [pc EXCEPT ![c] = "Stop_erase"]
    /\ UNCHANGED <<frames, message, current, stop, running, color, lastOutput,
                   colorVars, compVars, op, arg, tpc, launched, out, crashed, stops, cursorOut>>

StopErase(c) ==
    /\ ~crashed
    /\ pc[c] = "Stop_erase"
    /\ Write("erase")
    /\ call' = [call EXCEPT ![c].erased = @ + 1]
    /\ pc' = [pc EXCEPT ![c] = "Stop_fmt"]
    /\ UNCHANGED <<spinnerVars, colorVars, compVars, op, arg, tpc, launched, crashed, stops, cursorOut>>

\* mutant: Stop prints its success line also for an empty message
StopFormatAlways(c) ==
    /\ ~crashed
    /\ pc[c] = "Stop_fmt"
    /\ Write(IF op[c] = "Stop" THEN "success" ELSE "error")
    /\ call' = [call EXCEPT ![c].fmt =
                   Append(@, <<IF op[c] = "Stop" THEN "success" ELSE "error", arg[c]>>)]
    /\ pc' = [pc EXCEPT ![c] = "ret"]
    /\ UNCHANGED <<spinnerVars, colorVars, compVars, op, arg, tpc, launched, crashed, stops, cursorOut>>

\* mutant: StopWithError guards its error line like Stop does
StopFormatGuarded(c) ==
    /\ ~crashed
    /\ pc[c] = "Stop_fmt"
    /\ IF arg[c] = <<>>
       THEN UNCHANGED <<out, call>>
       ELSE /\ Write(IF op[c] = "Stop" THEN "success" ELSE "error")
            /\ call' = [call EXCEPT ![c].fmt =
                           Append(@, <<IF op[c] = "Stop" THEN "success" ELSE "error", arg[c]>>)]
    /\ pc' = [pc EXCEPT ![c] = "ret"]
    /\ UNCHANGED <<spinnerVars, colorVars, compVars, op, arg, tpc, launched, crashed, stops, cursorOut>>

\* Stop: if message != "" { SuccessPrint(message) }; StopWithError: ErrorPrint(message)
StopFormat(c) ==
    /\ ~crashed
    /\ pc[c] = "Stop_fmt"
    /\ IF op[c] = "Stop" /\ arg[c] = <<>>
       THEN UNCHANGED <<out, call>>
       ELSE /\ Write(IF op[c] = "Stop" THEN "success" ELSE "error")
            /\ call' = [call EXCEPT ![c].fmt =
                           Append(@, <<IF op[c] = "Stop" THEN "success" ELSE "error", arg[c]>>)]
    /\ pc' = [pc EXCEPT ![c] = "ret"]
    /\ UNCHANGED <<spinnerVars, colorVars, compVars, op, arg, tpc, launched, crashed, stops, cursorOut>>

\* ------------------------------------------------------------ UpdateMessage
UpdateLock(c) == \E m \in Msgs : Invoke(c, "UpdateMessage", m, "Update_cs")

\* mutant: UpdateMessage redraws the line at once
UpdateSetRedraws(c) ==
    /\ ~crashed
    /\ pc[c] = "Update_cs"
    /\ message' = arg[c]
    /\ Write("frame")
    /\ mu' = Free
    /\ pc' = [pc EXCEPT ![c] = "ret"]
    /\ call' = [call EXCEPT ![c].did = "performed"]
    /\ UNCHANGED <<frames, current, stop, running, color, lastOutput,
                   colorVars, compVars, op, arg, tpc, launched, crashed, stops, cursorOut>>

UpdateSet(c) ==
    /\ ~crashed
    /\ pc[c] = "Update_cs"
    /\ message' = arg[c]
    /\ mu' = Free
    /\ pc' = [pc EXCEPT ![c] = "ret"]
    /\ call' = [call EXCEPT ![c].did = "performed"]
    /\ UNCHANGED <<frames, current, stop, running, color, lastOutput,
                   colorVars, compVars, op, arg, tpc, launched, out, crashed, stops, cursorOut>>

\* ------------------------------------------------------- the rendering task
\* ticker := time.NewTicker(s.speed); if isColorEnabled() { hide the cursor }
TaskBegin(t) ==
    /\ ~crashed
    /\ tpc[t] = "spawned"
    /\ IF isColorEnabled
       THEN Write("hide") /\ cursorOut' = [cursorOut EXCEPT ![t] = "hide"]
       ELSE UNCHANGED <<out, cursorOut>>
    /\ tpc' = [tpc EXCEPT ![t] = "select"]
    /\ UNCHANGED <<spinnerVars, colorVars, compVars, pc, op, arg, launched, crashed, call, stops>>

\* case <-s.stop
TaskRecvStop(t) ==
    /\ ~crashed
    /\ tpc[t] = "select"
    /\ stop > 0
    /\ stop' = stop - 1
    /\ tpc' = [tpc EXCEPT ![t] = "stopping"]
    /\ UNCHANGED <<frames, message, current, running, mu, color, lastOutput,
                   colorVars, compVars, pc, op, arg, launched, out, crashed, call, stops, cursorOut>>

\* if isColorEnabled() { show the cursor }; return
TaskShow(t) ==
    /\ ~crashed
    /\ tpc[t] = "stopping"
    /\ IF isColorEnabled
       THEN Write("show") /\ cursorOut' = [cursorOut EXCEPT ![t] = "show"]
       ELSE UNCHANGED <<out, cursorOut>>
    /\ tpc' = [tpc EXCEPT ![t] = "done"]
    /\ UNCHANGED <<spinnerVars, colorVars, compVars, pc, op, arg, launched, crashed, call, stops>>

\* mutant: render that does not wait for the mutex
TaskTickNoWait(t) ==
    /\ ~crashed
    /\ tpc[t] = "select"
    /\ mu' = TaskId(t)
    /\ tpc' = [tpc EXCEPT ![t] = "rendering"]
    /\ UNCHANGED <<frames, message, current, stop, running, color, lastOutput,
                   colorVars, compVars, pc, op, arg, launched, out, crashed, call, stops, cursorOut>>

\* case <-ticker.C: a tick is ready; render begins with s.mu.Lock()
TaskTick(t) ==
    /\ ~crashed
    /\ tpc[t] = "select"
    /\ mu = Free
    /\ mu' = TaskId(t)
    /\ tpc' = [tpc EXCEPT ![t] = "rendering"]
    /\ UNCHANGED <<frames, message, current, stop, running, color, lastOutput,
                   colorVars, compVars, pc, op, arg, launched, out, crashed, call, stops, cursorOut>>

\* the line render builds: "\r%s %s", padded to the length of the last one
renderOutput ==
    LET frame == frames[(current % Len(frames)) + 1]
        line == IF isColorEnabled
                THEN <<CR>> \o colorize(frame, <<color>>) \o <<SP>> \o message
                ELSE <<CR>> \o frame \o <<SP>> \o message
    IN  IF Len(lastOutput) > Len(line)
        THEN line \o Repeat(SP, Len(lastOutput) - Len(line))
        ELSE line

\* s.current++ ; the counter is read only through current % len(frames) and is
\* kept modulo len(frames)
nextCurrent == (current + 1) % Len(frames)

\* render's body, under the mutex.  With no frame, current % len(frames)
\* divides by zero: the panic ends the process.
TaskRender(t) ==
    /\ ~crashed
    /\ tpc[t] = "rendering"
    /\ IF Len(frames) = 0
       THEN /\ crashed' = TRUE
            /\ UNCHANGED <<current, lastOutput, mu, out, tpc>>
       ELSE /\ current' = nextCurrent
            /\ Write("frame")
            /\ lastOutput' = renderOutput
            /\ mu' = Free
            /\ tpc' = [tpc EXCEPT ![t] = "select"]
            /\ UNCHANGED crashed
    /\ UNCHANGED <<frames, message, stop, running, color,
                   colorVars, compVars, pc, op, arg, launched, call, stops, cursorOut>>

\* ------------------------------------------------------------ specifications
\* every method, called by caller c
CallerNext(c) ==
    \/ Return(c)
    \/ StartLock(c)
    \/ StartCheck(c)
    \/ StartGo(c)
    \/ StopLock(c)
    \/ StopCheck(c)
    \/ StopSend(c)
    \/ StopWake(c)
    \/ StopClear(c)
    \/ StopErase(c)
    \/ StopFormat(c)
    \/ UpdateLock(c)
    \/ UpdateSet(c)

\* Start, Stop and StopWithError, called by caller c
StartStopNext(c) ==
    \/ Return(c)
    \/ StartLock(c)
    \/ StartCheck(c)
    \/ StartGo(c)
    \/ StopLock(c)
    \/ StopCheck(c)
    \/ StopSend(c)
    \/ StopWake(c)
    \/ StopClear(c)
    \/ StopErase(c)
    \/ StopFormat(c)

TaskNext(t) ==
    \/ TaskBegin(t)
    \/ TaskRecvStop(t)
    \/ TaskShow(t)
    \/ TaskTick(t)
    \/ TaskRender(t)

\* One caller (every call returns before the next is made) and the tasks.
Next == CallerNext(1) \/ (\E t \in Tasks : TaskNext(t))

Spec == Init /\ [][Next]_vars

\* Concurrent callers of Start, Stop and StopWithError, and the tasks.
ConcNext == (\E c \in Callers : StartStopNext(c)) \/ (\E t \in Tasks : TaskNext(t))

ConcSpec == Init /\ [][ConcNext]_vars

\* One Start/Stop cycle of one caller, under fair scheduling: a goroutine that
\* can run does run (WF), a blocked Lock is granted once the mutex keeps being
\* released (SF), and a select whose stop case is ready again and again takes
\* it in the end (SF: select chooses among its ready cases at random).
SingleNext == (CallerNext(1) /\ launched' <= 1) \/ (\E t \in Tasks : TaskNext(t))

Fairness ==
    /\ \A t \in Tasks :
         /\ WF_vars(TaskBegin(t))
         /\ SF_vars(TaskRecvStop(t))
         /\ WF_vars(TaskShow(t))
         /\ WF_vars(TaskRender(t))
    /\ \A c \in Callers :
         /\ WF_vars(StartGo(c))
         /\ WF_vars(StopCheck(c))
         /\ WF_vars(StopSend(c))
         /\ SF_vars(StopWake(c))
         /\ WF_vars(StopClear(c))
         /\ WF_vars(StopErase(c))
         /\ WF_vars(StopFormat(c))
         /\ WF_vars(UpdateSet(c))

FairSpec == Init /\ [][SingleNext]_vars /\ Fairness

\* One caller and the tasks, any number of cycles, under fair scheduling of
\* the goroutines and of the mutex; nothing is assumed about which ready case
\* a select takes, so a task may leave a stop signal in the channel for ever.
CallFairness ==
    /\ \A t \in Tasks :
         /\ WF_vars(TaskBegin(t))
         /\ WF_vars(TaskShow(t))
         /\ WF_vars(TaskRender(t))
    /\ \A c \in Callers :
         /\ WF_vars(StartCheck(c))
         /\ WF_vars(StartGo(c))
         /\ WF_vars(StopCheck(c))
         /\ WF_vars(StopSend(c))
         /\ SF_vars(StopWake(c))
         /\ WF_vars(StopClear(c))
         /\ WF_vars(StopErase(c))
         /\ WF_vars(StopFormat(c))
         /\ WF_vars(UpdateSet(c))

LiveSpec == Init /\ [][Next]_vars /\ CallFairness

\* ------------------------------------------- ForceColors, isColorEnabled
\* the spinner is not used while the colour decision is exercised on its own
spinnerIdle ==
    /\ frames = << <<"A">> >>
    /\ message \in InitMsgs
    /\ current = 0
    /\ stop = 0
    /\ running = FALSE
    /\ mu = Free
    /\ color = CyanCode
    /\ lastOutput = <<>>
    /\ pc = [c \in Callers |-> "idle"]
    /\ op = [c \in Callers |-> "none"]
    /\ arg = [c \in Callers |-> <<>>]
    /\ tpc = [t \in Tasks |-> "none"]
    /\ launched = 0
    /\ out = "none"
    /\ crashed = FALSE
    /\ call = [c \in Callers |-> NoCall]
    /\ stops = [t \in Tasks |-> 0]
    /\ cursorOut = [t \in Tasks |-> "none"]

\* no component used
compIdle ==
    /\ styleHeap = <<>>
    /\ styleRefs = <<>>
    /\ pb = NoBar
    /\ table = NoTable
    /\ probe = NoProbe

detectFrame ==
    UNCHANGED <<spinnerVars, compVars, pc, op, arg, tpc, launched, out, crashed,
                call, stops, cursorOut>>

\* package initialisation: forceColors is nil, noColor is computed from the
\* NO_COLOR variable of the environment the process is started in, mu is free
DetectInit ==
    /\ spinnerIdle
    /\ compIdle
    /\ env \in Envs
    /\ noColor = (env.nocolor # "")
    /\ forceColors = <<>>
    /\ rwmu = RWFree
    /\ dproc = [p \in Procs |-> NoProc]

\* the same in one environment: a terminal, no CI, not Windows, no NO_COLOR
RWInit ==
    /\ spinnerIdle
    /\ compIdle
    /\ env = TermEnv
    /\ noColor = (env.nocolor # "")
    /\ forceColors = <<>>
    /\ rwmu = RWFree
    /\ dproc = [p \in Procs |-> NoProc]

\* the host program sets NO_COLOR or CI between two calls (os.Setenv)
SetenvNoColor ==
    /\ \A p \in Procs : dproc[p].pc = "idle"
    /\ \E v \in NoColorValues : v # env.nocolor /\ env' = [env EXCEPT !.nocolor = v]
    /\ UNCHANGED <<forceColors, noColor, rwmu, dproc>>
    /\ detectFrame

SetenvCI ==
    /\ \A p \in Procs : dproc[p].pc = "idle"
    /\ \E v \in CIValues : v # env.ci /\ env' = [env EXCEPT !.ci = v]
    /\ UNCHANGED <<forceColors, noColor, rwmu, dproc>>
    /\ detectFrame

\* ForceColors(enabled) is called
ForceColorsCall(p) ==
    /\ dproc[p].pc = "idle"
    /\ \E b \in BOOLEAN :
         dproc' = [dproc EXCEPT ![p] = [NoProc EXCEPT !.pc = "fc_lock",
                                                      !.op = "ForceColors", !.arg = b]]
    /\ UNCHANGED <<forceColors, noColor, env, rwmu>>
    /\ detectFrame

\* mu.Lock(): waits until no goroutine holds the mutex
ForceColorsLock(p) ==
    /\ dproc[p].pc = "fc_lock"
    /\ rwmu.w = {} /\ rwmu.r = {}
    /\ rwmu' = [rwmu EXCEPT !.w = {p}]
    /\ dproc' = [dproc EXCEPT ![p].pc = "fc_write"]
    /\ UNCHANGED <<forceColors, noColor, env>>
    /\ detectFrame

\* forceColors = &enabled; the value becomes current for every call of
\* isColorEnabled that has not read yet
ForceColorsWrite(p) ==
    /\ dproc[p].pc = "fc_write"
    /\ forceColors' = <<dproc[p].arg>>
    /\ dproc' = [q \in Procs |->
                   IF q = p THEN [dproc[q] EXCEPT !.pc = "fc_unlock"]
                   ELSE IF dproc[q].pc \in {"ice_rlock", "ice_read"}
                        THEN [dproc[q] EXCEPT !.adm = @ \cup {<<dproc[p].arg>>}]
                        ELSE dproc[q]]
    /\ UNCHANGED <<noColor, env, rwmu>>
    /\ detectFrame

\* the deferred mu.Unlock(); ForceColors returns
ForceColorsUnlock(p) ==
    /\ dproc[p].pc = "fc_unlock"
    /\ rwmu' = [rwmu EXCEPT !.w = @ \ {p}]
    /\ dproc' = [dproc EXCEPT ![p].pc = "ret"]
    /\ UNCHANGED <<forceColors, noColor, env>>
    /\ detectFrame

\* isColorEnabled() is called
DetectCall(p) ==
    /\ dproc[p].pc = "idle"
    /\ dproc' = [dproc EXCEPT ![p] = [NoProc EXCEPT !.pc = "ice_rlock",
                                                    !.op = "isColorEnabled",
                                                    !.adm = {forceColors}]]
    /\ UNCHANGED <<forceColors, noColor, env, rwmu>>
    /\ detectFrame

\* mutant: a read lock that does not wait for the writer
DetectRLockNoWait(p) ==
    /\ dproc[p].pc = "ice_rlock"
    /\ rwmu' = [rwmu EXCEPT !.r = @ \cup {p}]
    /\ dproc' = [dproc EXCEPT ![p].pc = "ice_read"]
    /\ UNCHANGED <<forceColors, noColor, env>>
    /\ detectFrame

\* mu.RLock(): waits while a goroutine holds the mutex for writing
DetectRLock(p) ==
    /\ dproc[p].pc = "ice_rlock"
    /\ rwmu.w = {}
    /\ rwmu' = [rwmu EXCEPT !.r = @ \cup {p}]
    /\ dproc' = [dproc EXCEPT ![p].pc = "ice_read"]
    /\ UNCHANGED <<forceColors, noColor, env>>
    /\ detectFrame

\* fc := forceColors; a read made while a writer is in its critical section
\* is a data race and may yield any value
DetectRead(p) ==
    /\ dproc[p].pc = "ice_read"
    /\ \E v \in (IF rwmu.w = {} THEN {forceColors} ELSE {<<>>, <<TRUE>>, <<FALSE>>}) :
         dproc' = [dproc EXCEPT ![p].fc = v, ![p].pc = "ice_runlock"]
    /\ UNCHANGED <<forceColors, noColor, env, rwmu>>
    /\ detectFrame

\* mu.RUnlock()
DetectRUnlock(p) ==
    /\ dproc[p].pc = "ice_runlock"
    /\ rwmu' = [rwmu EXCEPT !.r = @ \ {p}]
    /\ dproc' = [dproc EXCEPT ![p].pc = "ice_decide"]
    /\ UNCHANGED <<forceColors, noColor, env>>
    /\ detectFrame

\* the decision from fc, noColor and the environment; isColorEnabled returns
DetectDecide(p) ==
    /\ dproc[p].pc = "ice_decide"
    /\ dproc' = [dproc EXCEPT ![p].res = colorDecision(dproc[p].fc), ![p].pc = "ret"]
    /\ UNCHANGED <<forceColors, noColor, env, rwmu>>
    /\ detectFrame

\* the caller has the result and goes on
DetectReturn(p) ==
    /\ dproc[p].pc = "ret"
    /\ dproc' = [dproc EXCEPT ![p] = NoProc]
    /\ UNCHANGED <<forceColors, noColor, env, rwmu>>
    /\ detectFrame

ProcNext(p) ==
    \/ ForceColorsCall(p)
    \/ ForceColorsLock(p)
    \/ ForceColorsWrite(p)
    \/ ForceColorsUnlock(p)
    \/ DetectCall(p)
    \/ DetectRLock(p)
    \/ DetectRead(p)
    \/ DetectRUnlock(p)
    \/ DetectDecide(p)
    \/ DetectReturn(p)

\* One goroutine making one call after the other, in every environment, the
\* host program changing NO_COLOR and CI between the calls.
DetectNext == ProcNext(1) \/ SetenvNoColor \/ SetenvCI

DetectSpec == DetectInit /\ [][DetectNext]_vars

\* Concurrent calls of ForceColors and isColorEnabled.
RWNext == \E p \in Procs : ProcNext(p)

RWSpec == RWInit /\ [][RWNext]_vars

\* ------------------------------------------------------ formatting calls
\* texts and code lists passed to colorize
Texts == {<<>>, <<"x">>}
CodeLists == {<<>>, <<RedCode>>, <<RedCode, Bold>>, <<Bold, RedCode>>}

\* the frame of a step of a component other than the colour decision and
\* the spinner
compFrame ==
    UNCHANGED <<spinnerVars, colorVars, pc, op, arg, tpc, launched, out, call, stops, cursorOut>>

\* result := colorize(text, codes...), called between two calls of ForceColors
ColorizeCall ==
    /\ \A p \in Procs : dproc[p].pc = "idle"
    /\ \E text \in Texts : \E codes \in CodeLists :
         probe' = [fn |-> "colorize", text |-> text, codes |-> codes,
                   result |-> colorize(text, codes)]
    /\ UNCHANGED <<styleHeap, styleRefs, pb, table, crashed>>
    /\ compFrame

\* One goroutine that calls ForceColors and colorize, in every environment.
FormatNext ==
    \/ ForceColorsCall(1)
    \/ ForceColorsLock(1)
    \/ ForceColorsWrite(1)
    \/ ForceColorsUnlock(1)
    \/ DetectReturn(1)
    \/ ColorizeCall

FormatSpec == DetectInit /\ [][FormatNext]_vars

\* ------------------------------------- a spinner while ForceColors is called
\* ForceColors, called by goroutine 1
ForceNext ==
    \/ ForceColorsCall(1)
    \/ ForceColorsLock(1)
    \/ ForceColorsWrite(1)
    \/ ForceColorsUnlock(1)
    \/ DetectReturn(1)

\* One Start/Stop cycle after the other of one caller, the rendering task,
\* and ForceColors called at any point.
CursorNext ==
    \/ (StartStopNext(1) /\ launched' <= 1)
    \/ (\E t \in Tasks : TaskNext(t))
    \/ ForceNext

CursorSpec == Init /\ [][CursorNext]_vars

\* ------------------------------------- isColorEnabled, call after call
\* the host program changes TERM or WT_SESSION between two calls
SetenvTerm ==
    /\ \A p \in Procs : dproc[p].pc = "idle"
    /\ \E v \in Terms : v # env.term /\ env' = [env EXCEPT !.term = v]
    /\ UNCHANGED <<forceColors, noColor, rwmu, dproc>>
    /\ detectFrame

SetenvSession ==
    /\ \A p \in Procs : dproc[p].pc = "idle"
    /\ \E v \in SessionValues : v # env.wt /\ env' = [env EXCEPT !.wt = v]
    /\ UNCHANGED <<forceColors, noColor, rwmu, dproc>>
    /\ detectFrame

\* a call of isColorEnabled; the first call is kept with what it was made
\* with, of every later call the result
DecideCall ==
    /\ \A p \in Procs : dproc[p].pc = "idle"
    /\ probe.fn \in {"none", "isColorEnabled"}
    /\ probe' = IF probe.fn = "none"
                THEN [fn |-> "isColorEnabled",
                      first |-> [fc |-> forceColors, nc |-> noColor, env |-> env,
                                 result |-> isColorEnabled],
                      last |-> isColorEnabled, seq |-> 0]
                ELSE [probe EXCEPT !.last = isColorEnabled, !.seq = 1 - @]
    /\ UNCHANGED <<styleHeap, styleRefs, pb, table, crashed>>
    /\ compFrame

\* any override a sequence of ForceColors calls can have left, any environment
DecideInit ==
    /\ spinnerIdle
    /\ compIdle
    /\ env \in Envs
    /\ noColor = (env.nocolor # "")
    /\ forceColors \in {<<>>, <<TRUE>>, <<FALSE>>}
    /\ rwmu = RWFree
    /\ dproc = [p \in Procs |-> NoProc]

\* Calls of isColorEnabled, the environment changing between them.
DecideNext ==
    \/ SetenvNoColor
    \/ SetenvCI
    \/ SetenvTerm
    \/ SetenvSession
    \/ DecideCall

DecideSpec == DecideInit /\ [][DecideNext]_vars

\* ------------------------------------------------------------------ Style
\* a terminal, no CI, NO_COLOR unset; any override; no component used yet
CompInit ==
    /\ spinnerIdle
    /\ compIdle
    /\ env = TermEnv
    /\ noColor = FALSE
    /\ forceColors \in {<<>>, <<TRUE>>, <<FALSE>>}
    /\ rwmu = RWFree
    /\ dproc = [p \in Procs |-> NoProc]

\* A Style object is an address in styleHeap; styleHeap[h] is its codes.
\* styleRefs are the *Style values the program holds, one for every value
\* NewStyle or a method has returned.
styleFrame == UNCHANGED <<spinnerVars, colorVars, pb, table, pc, op, arg, tpc, launched,
                          out, crashed, call, stops, cursorOut>>

\* return &Style{codes: []string{}}
NewStyle ==
    /\ Len(styleRefs) < MaxRefs
    /\ styleHeap' = Append(styleHeap, <<>>)
    /\ styleRefs' = Append(styleRefs, Len(styleHeap) + 1)
    /\ probe' = [fn |-> "NewStyle", ret |-> Len(styleHeap) + 1]
    /\ styleFrame

\* s.codes = append(s.codes, code); return s
appendCode(fn, code) ==
    /\ Len(styleRefs) < MaxRefs
    /\ \E i \in 1..Len(styleRefs) :
         LET s == styleRefs[i]
         IN  /\ styleHeap' = [styleHeap EXCEPT ![s] = Append(@, code)]
             /\ styleRefs' = Append(styleRefs, s)
             /\ probe' = [fn |-> fn, recv |-> s, ret |-> s]
    /\ styleFrame

Style_Red == appendCode("Red", RedCode)

Style_Green == appendCode("Green", GreenCode)

Style_Bold == appendCode("Bold", Bold)

\* return colorize(text, s.codes...)
Style_Apply ==
    /\ \E i \in 1..Len(styleRefs) : \E text \in Texts :
         LET s == styleRefs[i]
         IN  probe' = [fn |-> "Apply", recv |-> s, text |-> text,
                       result |-> colorize(text, styleHeap[s])]
    /\ UNCHANGED <<styleHeap, styleRefs>>
    /\ styleFrame

StyleNext ==
    \/ NewStyle
    \/ Style_Red
    \/ Style_Green
    \/ Style_Bold
    \/ Style_Apply

StyleSpec == CompInit /\ [][StyleNext]_vars

\* ------------------------------------------------------------- ProgressBar
\* the totals of the bars created, the values passed to Set, the amounts
\* passed to Add
Totals == {2, 3}
SetValues == -1..MaxProgress
Amounts == 0..MaxProgress

progressFrame == UNCHANGED <<spinnerVars, colorVars, styleHeap, styleRefs, table, pc, op, arg,
                             tpc, launched, call, stops, cursorOut>>

\* int(x) of a quotient of integers: truncation toward zero
truncDiv(a, b) == IF a >= 0 THEN a \div b ELSE -((-a) \div b)

\* %.0f of a quotient of integers: the nearest integer (no quotient of the
\* totals used lies halfway between two integers)
roundDiv(a, b) == IF a >= 0 THEN (2 * a + b) \div (2 * b) ELSE -((2 * (-a) + b) \div (2 * b))

\* %d
RECURSIVE digits(_)
digits(n) ==
    IF n < 0 THEN <<"-">> \o digits(-n)
    ELSE IF n < 10 THEN <<ToString(n)>>
    ELSE digits(n \div 10) \o <<ToString(n % 10)>>

\* filled := int(float64(pb.width) * float64(pb.current) / float64(pb.total))
filled(p) == truncDiv(p.width * p.current, p.total)

\* the bar draw builds when colours are enabled; "#" is the filled block,
\* "." the empty one
drawOutput(p) ==
    (IF p.prefix # <<>> THEN p.prefix \o <<SP>> ELSE <<>>)
      \o <<"[">>
      \o colorize(Repeat("#", filled(p)), <<p.color>>)
      \o Repeat(".", p.width - filled(p))
      \o <<"]">>
      \o (IF p.showPercent
          THEN <<SP>> \o digits(roundDiv(100 * p.current, p.total)) \o <<"%">>
          ELSE <<>>)

\* pb.draw(), p being the bar as the caller has left it.  strings.Repeat
\* panics on a negative count.
draw(p) ==
    IF ~isColorEnabled
    THEN /\ pb' = p
         /\ Write("bar")
         /\ UNCHANGED crashed
    ELSE IF filled(p) < 0 \/ p.width - filled(p) < 0
    THEN /\ pb' = p
         /\ crashed' = TRUE
         /\ UNCHANGED out
    ELSE /\ pb' = [p EXCEPT !.lastDraw = drawOutput(p)]
         /\ Write("bar")
         /\ UNCHANGED crashed

NewProgress ==
    /\ ~crashed
    /\ \E total \in Totals :
         pb' = [made |-> TRUE, total |-> total, current |-> 0, width |-> DefaultWidth,
                prefix |-> <<>>, showPercent |-> TRUE, lastDraw |-> <<>>,
                color |-> CyanCode]
    /\ probe' = [fn |-> "NewProgress"]
    /\ UNCHANGED <<out, crashed>>
    /\ progressFrame

\* pb.current = current; pb.draw()
Set ==
    /\ ~crashed
    /\ pb.made
    /\ \E v \in SetValues :
         /\ draw([pb EXCEPT !.current = v])
         /\ probe' = [fn |-> "Set", arg |-> v, before |-> pb.current]
    /\ progressFrame

\* mutant: no cap
capNever(cur, total) == cur

\* if pb.current > pb.total { pb.current = pb.total }
capAtTotal(cur, total) == IF cur > total THEN total ELSE cur

\* pb.current++; cap; pb.draw()
Increment ==
    /\ ~crashed
    /\ pb.made
    /\ draw([pb EXCEPT !.current = capAtTotal(pb.current + 1, pb.total)])
    /\ probe' = [fn |-> "Increment", arg |-> 1, before |-> pb.current]
    /\ progressFrame

\* pb.current += amount; cap; pb.draw()
Add ==
    /\ ~crashed
    /\ pb.made
    /\ \E amount \in Amounts :
         /\ draw([pb EXCEPT !.current = capAtTotal(pb.current + amount, pb.total)])
         /\ probe' = [fn |-> "Add", arg |-> amount, before |-> pb.current]
    /\ progressFrame

ProgressNext ==
    \/ NewProgress
    \/ Set
    \/ Increment
    \/ Add
    \/ ForceNext

ProgressSpec == CompInit /\ [][ProgressNext]_vars

\* -------------------------------------------------------------------- Table
\* the cells the program puts in a table, and the lists of cells it passes
Cells == {<<"a">>, <<"a", "b", "c">>}
CellLists == UNION {[1..n -> Cells] : n \in 1..MaxCols}
\* the border colours passed to NewTable ("" by default)
BorderColors == {<<>>, GreenCode}
\* the row AddSeparator appends
SeparatorRow == << <<"__SEPARATOR__">> >>
\* TableStyleRounded, one token for every box-drawing character
TableStyleRounded ==
    [TopLeft |-> "tl", TopRight |-> "tr", BottomLeft |-> "bl", BottomRight |-> "br",
     Horizontal |-> "-", Vertical |-> "|", Cross |-> "+", TopCross |-> "tc",
     BottomCross |-> "bc", LeftCross |-> "lc", RightCross |-> "rc",
     HeaderSeparator |-> "-"]
\* the ASCII letters among the tokens of cells and codes
Letters == {"a", "b", "c", "m"}

tableFrame == UNCHANGED <<spinnerVars, colorVars, styleHeap, styleRefs, pb, pc, op, arg, tpc,
                          launched, out, crashed, call, stops, cursorOut>>

\* the loop of stripANSI, from byte i on
RECURSIVE stripFrom(_, _, _)
stripFrom(str, i, inEscape) ==
    IF i > Len(str) THEN <<>>
    ELSE IF str[i] = ESC THEN stripFrom(str, i + 1, TRUE)
    ELSE IF inEscape THEN stripFrom(str, i + 1, ~(str[i] \in Letters))
    ELSE <<str[i]>> \o stripFrom(str, i + 1, FALSE)

stripANSI(str) == stripFrom(str, 1, FALSE)

\* every character of a cell is one column wide
visualWidth(str) == Len(stripANSI(str))

\* alignment is AlignLeft
alignText(text, width) ==
    IF visualWidth(text) >= width
    THEN text
    ELSE text \o Repeat(SP, width - visualWidth(text))

\* stdout is a terminal, NO_COLOR is empty and CI is empty
tableIsColorEnabled == env.tty /\ env.nocolor = "" /\ env.ci = ""

tableColorize(text, clr) ==
    IF ~tableIsColorEnabled \/ clr = <<>>
    THEN text
    ELSE clr \o text \o <<ESC, "[", "0", "m">>

Table_colorize(text, clr) == IF clr = <<>> THEN text ELSE tableColorize(text, clr)

RECURSIVE borderParts(_, _, _, _)
borderParts(widths, i, cross, horizontal) ==
    IF i > Len(widths) THEN <<>>
    ELSE Repeat(horizontal, widths[i] + 2 * Padding)
           \o (IF i < Len(widths) THEN <<cross>> ELSE <<>>)
           \o borderParts(widths, i + 1, cross, horizontal)

buildBorder(t, left, cross, right, horizontal) ==
    Table_colorize(<<left>> \o borderParts(t.columnWidths, 1, cross, horizontal) \o <<right>>,
                   t.borderColor)

isSeparatorRow(row) == row = SeparatorRow

getCellContent(cells, index) == IF index <= Len(cells) THEN cells[index] ELSE <<>>

colorizeCell(cell, clr) ==
    IF clr = <<>> \/ Contains(cell, <<ESC, "[">>) THEN cell ELSE Table_colorize(cell, clr)

formatCell(t, displayCell, columnIndex) ==
    Repeat(SP, Padding) \o alignText(displayCell, t.columnWidths[columnIndex])
      \o Repeat(SP, Padding)

RECURSIVE appendCellParts(_, _, _, _, _)
appendCellParts(t, cells, clr, verticalBorder, i) ==
    IF i > Len(t.columnWidths) THEN <<>>
    ELSE formatCell(t, colorizeCell(getCellContent(cells, i), clr), i)
           \o (IF i < Len(t.columnWidths) THEN verticalBorder ELSE <<>>)
           \o appendCellParts(t, cells, clr, verticalBorder, i + 1)

buildRow(t, cells, clr) ==
    IF Len(cells) = 0 THEN <<>>
    ELSE IF isSeparatorRow(cells)
    THEN buildBorder(t, TableStyleRounded.LeftCross, TableStyleRounded.Cross,
                     TableStyleRounded.RightCross, TableStyleRounded.Horizontal)
    ELSE LET verticalBorder == Table_colorize(<<TableStyleRounded.Vertical>>, t.borderColor)
         IN  verticalBorder \o appendCellParts(t, cells, clr, verticalBorder, 1)
               \o verticalBorder

determineColumnCount(t) ==
    IF Len(t.headers) > 0 THEN Len(t.headers)
    ELSE IF Len(t.rows) > 0 THEN Len(t.rows[1])
    ELSE 0

updateWidthsFromCells(widths, cells, numCols) ==
    [i \in 1..Len(widths) |->
       IF i <= Len(cells) /\ i <= numCols /\ visualWidth(cells[i]) > widths[i]
       THEN visualWidth(cells[i])
       ELSE widths[i]]

RECURSIVE updateWidthsFromRows(_, _, _, _)
updateWidthsFromRows(widths, rows, r, numCols) ==
    IF r > Len(rows) THEN widths
    ELSE updateWidthsFromRows(
           IF isSeparatorRow(rows[r]) THEN widths
           ELSE updateWidthsFromCells(widths, rows[r], numCols),
           rows, r + 1, numCols)

\* the widths kept are used as they are when there are any; there are no
\* fixed widths and no MinWidth or MaxWidth
calculateColumnWidths(t) ==
    IF Len(t.columnWidths) > 0 THEN t.columnWidths
    ELSE IF determineColumnCount(t) = 0 THEN t.columnWidths
    ELSE LET numCols == determineColumnCount(t)
             fromHeaders == [i \in 1..numCols |->
                               IF i <= Len(t.headers) THEN visualWidth(t.headers[i]) ELSE 0]
             fromRows == updateWidthsFromRows(fromHeaders, t.rows, 1, numCols)
         IN  updateWidthsFromCells(fromRows, t.footer, numCols)

\* the lines String writes: top border, header, rows, footer, bottom border
writeLines(t) ==
    << buildBorder(t, TableStyleRounded.TopLeft, TableStyleRounded.TopCross,
                   TableStyleRounded.TopRight, TableStyleRounded.Horizontal) >>
      \o (IF Len(t.headers) = 0 THEN <<>>
          ELSE << buildRow(t, t.headers, t.headerColor),
                  buildBorder(t, TableStyleRounded.LeftCross, TableStyleRounded.Cross,
                              TableStyleRounded.RightCross,
                              TableStyleRounded.HeaderSeparator) >>)
      \o [r \in 1..Len(t.rows) |-> buildRow(t, t.rows[r], <<>>)]
      \o (IF Len(t.footer) = 0 THEN <<>>
          ELSE << buildBorder(t, TableStyleRounded.LeftCross, TableStyleRounded.Cross,
                              TableStyleRounded.RightCross,
                              TableStyleRounded.HeaderSeparator),
                  buildRow(t, t.footer, t.footerColor) >>)
      \o << buildBorder(t, TableStyleRounded.BottomLeft, TableStyleRounded.BottomCross,
                        TableStyleRounded.BottomRight, TableStyleRounded.Horizontal) >>

NewTable ==
    /\ ~table.made
    /\ \E clr \in BorderColors :
         table' = [made |-> TRUE, headers |-> <<>>, rows |-> <<>>, footer |-> <<>>,
                   columnWidths |-> <<>>, headerColor |-> CyanCode,
                   borderColor |-> clr, footerColor |-> WhiteCode]
    /\ probe' = [fn |-> "NewTable"]
    /\ tableFrame

SetHeaders ==
    /\ table.made
    /\ \E headers \in CellLists : table' = [table EXCEPT !.headers = headers]
    /\ probe' = [fn |-> "SetHeaders"]
    /\ tableFrame

AddRow ==
    /\ table.made
    /\ Len(table.rows) < MaxRows
    /\ \E cells \in CellLists : table' = [table EXCEPT !.rows = Append(@, cells)]
    /\ probe' = [fn |-> "AddRow"]
    /\ tableFrame

AddRows ==
    /\ table.made
    /\ Len(table.rows) + 2 <= MaxRows
    /\ \E r1 \in CellLists : \E r2 \in CellLists :
         table' = [table EXCEPT !.rows = @ \o <<r1, r2>>]
    /\ probe' = [fn |-> "AddRows"]
    /\ tableFrame

SetFooter ==
    /\ table.made
    /\ \E cells \in CellLists : table' = [table EXCEPT !.footer = cells]
    /\ probe' = [fn |-> "SetFooter"]
    /\ tableFrame

AddSeparator ==
    /\ table.made
    /\ Len(table.rows) < MaxRows
    /\ table' = [table EXCEPT !.rows = Append(@, SeparatorRow)]
    /\ probe' = [fn |-> "AddSeparator"]
    /\ tableFrame

\* t.rows = [][]string{}; t.columnWidths = []int{}
Clear ==
    /\ table.made
    /\ table' = [table EXCEPT !.rows = <<>>, !.columnWidths = <<>>]
    /\ probe' = [fn |-> "Clear"]
    /\ tableFrame

\* t.calculateColumnWidths(); the five parts are written
String ==
    /\ table.made
    /\ LET t == [table EXCEPT !.columnWidths = calculateColumnWidths(table)]
       IN  /\ table' = t
           /\ probe' = [fn |-> "String", result |-> writeLines(t)]
    /\ tableFrame

\* A table built and printed, on a terminal.
LayoutNext ==
    \/ NewTable
    \/ SetHeaders
    \/ AddRow
    \/ AddRows
    \/ SetFooter
    \/ AddSeparator
    \/ Clear
    \/ String

\* a terminal, no CI, NO_COLOR unset, no override
LayoutInit == CompInit /\ forceColors = <<>>

LayoutSpec == LayoutInit /\ [][LayoutNext]_vars

\* A table with headers printed in any environment, under any override.
TableColorNext ==
    \/ NewTable
    \/ SetHeaders
    \/ String

TableColorSpec == DecideInit /\ [][TableColorNext]_vars

\* ------------------------------------------------------------------- claims
StopOps == {"Stop", "StopWithError"}
TaskAlive(t) == tpc[t] \notin {"none", "done"}
AliveTasks == {t \in Tasks : TaskAlive(t)}
PendingGo == {c \in Callers : pc[c] = "Start_go"}
RECURSIVE SumStops(_)
SumStops(n) == IF n = 0 THEN 0 ELSE stops[n] + SumStops(n - 1)
\* a Stop or StopWithError that found the spinner Running is returning
StopReturns(c) == pc[c] = "ret" /\ op[c] \in StopOps /\ call[c].did = "performed"

\* C1: when a Stop/StopWithError that found the spinner Running returns, the
\* rendering task of the run it stopped has terminated (stated for a spinner
\* that has a frame to render).
C1_TaskEndedWhenStopReturns ==
    \A c \in Callers :
        (Len(frames) > 0 /\ StopReturns(c)) => tpc[call[c].tgt] = "done"

\* C2: at most one rendering task of the Spinner is alive in every state
\* (stated for a spinner that has a frame to render).
C2_AtMostOneTaskAlive == Len(frames) > 0 => Cardinality(AliveTasks) <= 1

\* C3: every Stop/StopWithError that flipped Running to Idle puts its stop
\* signal in the channel: none is dropped because the slot is still full
\* (stated for a spinner that has a frame to render).
C3_EveryStopSignalDelivered ==
    [][\A c \in Callers :
         (Len(frames) > 0 /\ pc[c] = "Stop_send" /\ pc'[c] = "Stop_sleep")
            => stop' = stop + 1]_vars

\* C4: between two stops exactly one Start flips running to true and launches
\* exactly one task; a Start that finds the spinner Running launches none, so
\* with no stop so far exactly one rendering task (launched or about to be)
\* exists while the spinner is Running.
C4_StartIdempotent ==
    /\ launched = SumStops(MaxTasks) + (IF running THEN 1 ELSE 0)
    /\ Cardinality({t \in Tasks : tpc[t] # "none"}) + Cardinality(PendingGo) = launched
    /\ \A c \in Callers :
         (op[c] = "Start" /\ call[c].did = "noop") => pc[c] = "ret"
    /\ (running /\ SumStops(MaxTasks) = 0) =>
         Cardinality(AliveTasks) + Cardinality(PendingGo) = 1

\* two Start calls in progress at once, one of which flipped and one of which
\* found the spinner Running, with the one task alive
C4_Witness ==
    \E c, d \in Callers :
        /\ op[c] = "Start" /\ call[c].did = "performed"
        /\ op[d] = "Start" /\ call[d].did = "noop"
        /\ SumStops(MaxTasks) = 0
        /\ Cardinality(AliveTasks) = 1

\* C5: under fair scheduling, in a single Start/Stop cycle of a spinner with
\* at least one frame, once Stop/StopWithError has flipped running to false
\* the rendering task of that run eventually takes the stop signal and ends.
C5_StoppedTaskEnds ==
    \A c \in Callers : \A t \in Tasks :
        (Len(frames) > 0 /\ pc[c] = "Stop_send" /\ call[c].tgt = t) ~> (tpc[t] = "done")

\* the task has rendered, the stop has been signalled, and the task has ended
C5_Witness ==
    /\ Len(frames) > 0
    /\ launched = 1
    /\ lastOutput # <<>>
    /\ \E c \in Callers : pc[c] = "Stop_sleep"
    /\ tpc[1] = "done"

C7_IdleStopIsNoop ==
    [][\A c \in Callers :
         (\/ pc[c] = "idle" /\ pc'[c] = "Stop_cs"
          \/ pc[c] = "Stop_cs" /\ ~running /\ pc'[c] # pc[c]
          \/ pc[c] = "ret" /\ op[c] \in StopOps /\ call[c].did = "noop" /\ pc'[c] # pc[c])
         => /\ UNCHANGED <<running, message, current, lastOutput, stop, out, tpc>>
            /\ call'[c].fmt = <<>> /\ call'[c].sent = 0 /\ call'[c].erased = 0
            /\ pc[c] = "Stop_cs" => pc'[c] = "ret"]_vars

\* a Stop/StopWithError returns from a spinner that was stopped before
C7_Witness ==
    \E c \in Callers :
        pc[c] = "ret" /\ op[c] \in StopOps /\ call[c].did = "noop" /\ launched > 0

\* C8: when Stop(m) that found the spinner Running returns, running is false
\* (no Start has flipped it since), the success formatter has been called
\* once with m if m is non-empty and not at all if m is empty, and the error
\* formatter has not been called.
C8_StopSuccess ==
    \A c \in Callers :
        (StopReturns(c) /\ op[c] = "Stop") =>
            /\ launched = call[c].tgt => ~running
            /\ call[c].fmt = IF arg[c] = <<>> THEN <<>> ELSE <<(<<"success", arg[c]>>)>>

C8_Witness ==
    \E c \in Callers : StopReturns(c) /\ op[c] = "Stop" /\ arg[c] = <<>> /\ ~running

\* C9: when StopWithError(m) that found the spinner Running returns, running
\* is false (no Start has flipped it since) and the error formatter has been
\* called exactly once with m, also for the empty m; the success formatter
\* has not been called.
C9_StopWithErrorAlwaysFormats ==
    \A c \in Callers :
        (StopReturns(c) /\ op[c] = "StopWithError") =>
            /\ launched = call[c].tgt => ~running
            /\ call[c].fmt = <<(<<"error", arg[c]>>)>>

C9_Witness ==
    \E c \in Callers :
        StopReturns(c) /\ op[c] = "StopWithError" /\ arg[c] = <<>> /\ ~running

\* C10: whatever frame list the Spinner was constructed with, rendering a
\* frame never crashes (no division by zero, no index out of range).
C10_RenderNeverCrashes == ~crashed

\* the step of a rendering task that is render's body
RenderStep == \E t \in Tasks : tpc[t] = "rendering" /\ (tpc'[t] = "select" \/ crashed')
\* the position of the first space of a frame line: "\r", the frame (with its
\* colour codes), a space, the message, padding
RECURSIVE FirstSpace(_, _)
FirstSpace(line, k) ==
    IF k > Len(line) THEN 0 ELSE IF line[k] = SP THEN k ELSE FirstSpace(line, k + 1)
ShowsFrame(line, frame) ==
    FirstSpace(line, 1) > 0 /\ Contains(SubSeq(line, 1, FirstSpace(line, 1) - 1), frame)
ShowsMessage(line, m) ==
    LET k == FirstSpace(line, 1)
    IN  /\ k > 0
        /\ k + Len(m) <= Len(line)
        /\ SubSeq(line, k + 1, k + Len(m)) = m
        /\ \A j \in (k + Len(m) + 1)..Len(line) : line[j] = SP

\* C11: every render reads frames at an index within 0..len(frames)-1 (it
\* does not crash), writes the frame at the present index and advances the
\* index by one (modulo the number of frames, from 0 at construction); no
\* other step changes the index.
C11_FramesCycleInRange ==
    [][IF RenderStep
       THEN /\ Len(frames) > 0
            /\ ~crashed'
            /\ out' = "frame"
            /\ ShowsFrame(lastOutput', frames[current + 1])
            /\ current' = (current + 1) % Len(frames)
       ELSE current' = current]_vars

\* C12: UpdateMessage changes message to its argument and nothing else of the
\* spinner (it writes nothing, starts and stops nothing), no other step
\* changes message, every frame line rendered shows the message of that
\* moment, and so every frame rendered after UpdateMessage(m) has returned,
\* with no later UpdateMessage, shows m.
C12_UpdateMessageShownLater ==
    [][/\ message' # message =>
            \E c \in Callers : pc[c] = "Update_cs" /\ message' = arg[c]
       /\ \A c \in Callers :
            /\ ((pc[c] = "idle" /\ pc'[c] = "Update_cs")
                  \/ (op[c] = "UpdateMessage" /\ pc[c] = "ret" /\ pc'[c] = "idle"))
                 => UNCHANGED <<frames, message, current, stop, running, color,
                                lastOutput, out, tpc, launched>>
            /\ (pc[c] = "Update_cs" /\ pc'[c] # "Update_cs")
                 => /\ message' = arg[c]
                    /\ UNCHANGED <<frames, current, stop, running, color,
                                   lastOutput, out, tpc, launched>>
            /\ (RenderStep /\ ~crashed' /\ pc[c] = "ret" /\ op[c] = "UpdateMessage")
                 => ShowsMessage(lastOutput', arg[c])
       /\ (RenderStep /\ ~crashed') => ShowsMessage(lastOutput', message)
      ]_vars

\* UpdateMessage("") has returned while the spinner runs, and the frame line
\* rendered since shows the empty message where "ok" was shown before
C12_Witness ==
    /\ running
    /\ pc[1] = "ret" /\ op[1] = "UpdateMessage" /\ arg[1] = <<>>
    /\ out = "frame"
    /\ ShowsMessage(lastOutput, <<>>)
    /\ Len(lastOutput) > 3

\* C13: while the cursor-show sequence of the latest run has been written and
\* no Start has launched a run since, no frame line is written.
C13_NoFrameAfterCursorShow ==
    [][(RenderStep /\ out' = "frame")
          => ~(isColorEnabled /\ launched > 0 /\ tpc[launched] = "done")]_vars

\* C14: every call of Start, UpdateMessage, Stop or StopWithError that has
\* begun reaches its return (unless the process has crashed), also when the
\* stop channel is full or no task takes the signal, and the instance lock
\* is free again and again, so that a call waiting to begin is let in.
C14_EveryCallCompletes ==
    /\ \A c \in Callers : (pc[c] \notin {"idle", "ret"}) ~> (pc[c] = "ret" \/ crashed)
    /\ []<>(mu = Free \/ crashed)

\* a Stop returns whose send found the channel still full
C14_Witness ==
    \E c \in Callers :
        /\ StopReturns(c)
        /\ call[c].sent = 1 /\ call[c].queued = 0
        /\ ~crashed

\* a call of isColorEnabled / of ForceColors is returning
DetectReturns(p) == dproc[p].pc = "ret" /\ dproc[p].op = "isColorEnabled"
ForceReturns(p) == dproc[p].pc = "ret" /\ dproc[p].op = "ForceColors"
XtermIn(term) == Contains(term, <<"x", "t", "e", "r", "m">>)
Color256In(term) == Contains(term, <<"2", "5", "6", "c", "o", "l", "o", "r">>)

\* C15: isColorEnabled returns true exactly when the override is true, or the
\* override is unset, the NO_COLOR snapshot is false, stdout is a terminal, CI
\* is not detected (CI is neither "true" nor "1") and the OS is not Windows or
\* TERM contains "xterm" or "256color" or WT_SESSION is non-empty.
C15_ColorDecisionTable ==
    \A p \in Procs :
        DetectReturns(p) =>
            dproc[p].res =
                (\/ forceColors = <<TRUE>>
                 \/ /\ forceColors = <<>>
                    /\ ~noColor
                    /\ env.tty
                    /\ env.ci \notin {"true", "1"}
                    /\ \/ env.goos # "windows"
                       \/ XtermIn(env.term)
                       \/ Color256In(env.term)
                       \/ env.wt # "")

\* auto-detection on Windows says yes because of WT_SESSION alone
C15_Witness ==
    \E p \in Procs :
        /\ DetectReturns(p) /\ dproc[p].res
        /\ forceColors = <<>> /\ env.goos = "windows"
        /\ ~XtermIn(env.term) /\ ~Color256In(env.term) /\ env.wt # ""

\* C16: a writer of the override is never in its critical section together
\* with a reader or another writer; the value a call of isColorEnabled reads
\* is the override that was current when the call began or one that a
\* ForceColors wrote during the call, and the call returns that value when it
\* is set (the automatic decision, true in this environment, when it is not).
C16_OverrideReadWriteExclusion ==
    /\ Cardinality(rwmu.w) <= 1
    /\ rwmu.w # {} => rwmu.r = {}
    /\ \A p \in Procs :
         /\ (dproc[p].pc \in {"ice_runlock", "ice_decide"} \/ DetectReturns(p))
              => dproc[p].fc \in dproc[p].adm
         /\ DetectReturns(p)
              => dproc[p].res = (IF dproc[p].fc # <<>> THEN dproc[p].fc[1] ELSE TRUE)

\* a call of isColorEnabled during which a ForceColors wrote returns the value
\* written, which is not the one that was current when the call began
C16_Witness ==
    \E p \in Procs :
        /\ DetectReturns(p)
        /\ Cardinality(dproc[p].adm) = 2
        /\ dproc[p].fc = <<FALSE>> /\ ~dproc[p].res
        /\ <<TRUE>> \in dproc[p].adm

\* C17: ForceColors(b) returns with the override set to b (it has no other
\* outcome), only ForceColors changes the override and never to unset, and
\* isColorEnabled returns the override whenever it is set, whatever NO_COLOR,
\* the terminal, CI and the OS are.
C17_OverrideWins ==
    [][/\ forceColors' # forceColors =>
            \E p \in Procs : dproc[p].pc = "fc_write" /\ forceColors' = <<dproc[p].arg>>
       /\ \A p \in Procs :
            /\ ForceReturns(p)' => forceColors' = <<dproc'[p].arg>>
            /\ (DetectReturns(p)' /\ forceColors' # <<>>) => dproc'[p].res = forceColors'[1]
      ]_vars

\* colours forced on although NO_COLOR was set, stdout is no terminal and CI
\* is detected
C17_Witness ==
    \E p \in Procs :
        /\ DetectReturns(p) /\ dproc[p].res
        /\ forceColors = <<TRUE>> /\ noColor /\ ~env.tty /\ env.ci = "true"

\* C18: with no override, isColorEnabled returns false whenever the NO_COLOR
\* environment variable is non-empty at the time of the call, also when it
\* was set after process start.
C18_NoColorSetAtCallTime ==
    \A p \in Procs :
        (DetectReturns(p) /\ forceColors = <<>> /\ env.nocolor # "") => ~dproc[p].res

C20_AnyCIValueDisables ==
    \A p \in Procs :
        (DetectReturns(p) /\ forceColors = <<>> /\ env.ci # "") => ~dproc[p].res

\* C21: a call of colorize returns the text alone when isColorEnabled is
\* false, and otherwise the codes in argument order, the text and one reset
\* code; the call changes nothing but its result.
C21_ColorizeResult ==
    [][(probe' # probe /\ probe'.fn = "colorize") =>
          /\ probe'.result =
                IF ~isColorEnabled THEN probe'.text
                ELSE (IF Len(probe'.codes) = 0 THEN <<>>
                      ELSE IF Len(probe'.codes) = 1 THEN probe'.codes[1]
                      ELSE probe'.codes[1] \o probe'.codes[2])
                     \o probe'.text \o <<ESC, "[", "0", "m">>
          /\ UNCHANGED <<forceColors, noColor, env, rwmu, dproc, styleHeap, styleRefs,
                         pb, table, out, crashed>>
      ]_vars

\* colorize("x", RedCode, Bold) with colours forced on, stdout not a terminal
C21_Witness ==
    /\ probe.fn = "colorize"
    /\ probe.text = <<"x">> /\ probe.codes = <<RedCode, Bold>>
    /\ forceColors = <<TRUE>> /\ ~env.tty
    /\ Len(probe.result) = 5 + 4 + 1 + 4

\* a call of isColorEnabled after the first one is made
LaterDecide == probe.fn = "isColorEnabled" /\ probe' # probe
\* the call being made has the override, the NO_COLOR snapshot, the TTY
\* status, the CI status and the OS of the first call
SameInputs ==
    /\ forceColors = probe.first.fc
    /\ noColor = probe.first.nc
    /\ env.tty = probe.first.env.tty
    /\ (env.ci \in {"true", "1"}) = (probe.first.env.ci \in {"true", "1"})
    /\ env.goos = probe.first.env.goos
\* the terminal signal that is read on Windows
AnsiSignal(e) == XtermIn(e.term) \/ Color256In(e.term) \/ e.wt # ""

\* C23 as claimed: a call made with the same override, NO_COLOR snapshot, TTY
\* status, CI status and OS as the first call returns the same result.
C23_SameFiveInputsSameResult ==
    [][(LaterDecide /\ SameInputs) => probe'.last = probe.first.result]_vars

\* C23 amended: a call made with the same override, NO_COLOR snapshot, TTY
\* status, CI status and OS as the first call and, on Windows, the same
\* terminal signal (TERM contains "xterm" or "256color", or WT_SESSION is
\* non-empty) returns the same result, whatever else has changed.
C23_SameInputsAndSignalSameResult ==
    [][(LaterDecide /\ SameInputs
          /\ (env.goos = "windows" => AnsiSignal(env) = AnsiSignal(probe.first.env)))
         => probe'.last = probe.first.result]_vars

\* on Windows, a second call made after TERM and NO_COLOR have changed, with
\* the same terminal signal, returns true as the first one did
C23_Witness ==
    /\ probe.fn = "isColorEnabled" /\ probe.seq = 1
    /\ forceColors = probe.first.fc /\ forceColors = <<>>
    /\ noColor = probe.first.nc
    /\ env.goos = "windows" /\ probe.first.env.goos = "windows"
    /\ env.tty /\ probe.first.env.tty
    /\ env.ci = probe.first.env.ci
    /\ env.term # probe.first.env.term
    /\ env.nocolor # probe.first.env.nocolor
    /\ AnsiSignal(env) /\ AnsiSignal(probe.first.env)
    /\ probe.last /\ probe.first.result

\* C27: a task that ends has written the cursor-show sequence if and only
\* if it had written the cursor-hide sequence, also when ForceColors is called
\* between Start and Stop.
C27_CursorRestored ==
    [][\A t \in Tasks :
         (tpc[t] # "done" /\ tpc'[t] = "done")
           => \/ cursorOut[t] = "hide" /\ cursorOut'[t] = "show"
              \/ cursorOut[t] = "none" /\ cursorOut'[t] = "none"]_vars

\* the goroutines inside a critical section of the spinner's mutex
CallersInCS == {c \in Callers : pc[c] \in {"Start_cs", "Stop_cs", "Stop_cs2", "Update_cs"}}
TasksInCS == {t \in Tasks : tpc[t] = "rendering"}

\* C28: at most one of render, UpdateMessage and the critical sections of
\* Start, Stop and StopWithError is under way at a time, it is under way with
\* the mutex held by its goroutine, and message, current, lastOutput and
\* running change only in a step of the goroutine that holds the mutex.
C28_SharedStateUnderLock ==
    [][/\ Cardinality(CallersInCS) + Cardinality(TasksInCS) <= 1
       /\ \A c \in CallersInCS : mu = CallerId(c)
       /\ \A t \in TasksInCS : mu = TaskId(t)
       /\ <<message, current, lastOutput, running>> # <<message', current', lastOutput', running'>>
            => /\ mu # Free
               /\ \A c \in Callers : mu = CallerId(c) => pc'[c] # pc[c]
               /\ \A t \in Tasks : mu = TaskId(t) => tpc'[t] # tpc[t]]_vars

\* a render holds the mutex while a Stop call that has flipped running is
\* between its two critical sections
C28_Witness ==
    /\ \E t \in Tasks : tpc[t] = "rendering" /\ mu = TaskId(t)
    /\ pc[1] = "Stop_sleep"
    /\ ~running
    /\ lastOutput # <<>>

\* C29: a frame line is at least as long as the one written before it, and
\* the run of spaces a stop writes is at least as long as the last (longest)
\* frame line written before it and at least len(message)+10.
C29_EraseCoversEveryLine ==
    [][/\ Len(lastOutput') >= Len(lastOutput)
       /\ \A c \in Callers :
            call'[c].erased > call[c].erased
              => /\ call[c].clearLength >= Len(lastOutput)
                 /\ call[c].clearLength >= Len(message) + ClearMargin]_vars

\* the code a Style method appends
CodeOf(fn) == IF fn = "Red" THEN RedCode ELSE IF fn = "Green" THEN GreenCode ELSE Bold

\* C24: a call of Red, Green or Bold on a Style leaves the codes of the
\* receiver as they were and returns another Style, whose codes are those of
\* the receiver followed by the code of the method.
C24_MethodsLeaveReceiver ==
    [][(styleRefs' # styleRefs /\ probe'.fn \in {"Red", "Green", "Bold"})
         => /\ styleHeap'[probe'.recv] = styleHeap[probe'.recv]
            /\ probe'.ret # probe'.recv
            /\ styleHeap'[probe'.ret] = Append(styleHeap[probe'.recv], CodeOf(probe'.fn))]_vars

\* the step made is a call of fn on the progress bar
BarStep(fn) == probe'.fn = fn /\ <<probe, pb, out, crashed>> # <<probe', pb', out', crashed'>>

\* C25: Set(v) with v > total completes without a crash and leaves
\* current = v, colours enabled or not.
C25_SetBeyondTotal ==
    [][(BarStep("Set") /\ probe'.arg > pb.total) => (~crashed' /\ pb'.current = probe'.arg)]_vars

\* C26: right after an Increment or an Add of a non-negative amount,
\* current <= total, whatever Set had put in current before.
C26_CappedAtTotal ==
    [][(BarStep("Increment") \/ BarStep("Add")) => pb'.current <= pb'.total]_vars

\* an Increment made when Set had put current above total has brought it
\* back to total
C26_Witness ==
    /\ pb.made
    /\ probe.fn = "Increment"
    /\ probe.before > pb.total
    /\ pb.current = pb.total
    /\ ~crashed

\* a line of a table holds an escape sequence
HasEscape(line) == \E i \in 1..Len(line) : line[i] = ESC

\* C22: String colorizes the header cells, and the borders when a border
\* colour is set, exactly when isColorEnabled is true; when it is false the
\* string holds no escape sequence.
C22_TableFollowsDecision ==
    [][(probe'.fn = "String" /\ <<probe, table>> # <<probe', table'>>)
         => LET lines == probe'.result
            IN  /\ Len(table.headers) > 0
                     => (Contains(lines[2], table.headerColor) <=> isColorEnabled)
                /\ table.borderColor # <<>>
                     => (Contains(lines[1], table.borderColor) <=> isColorEnabled)
                /\ ~isColorEnabled => \A l \in 1..Len(lines) : ~HasEscape(lines[l])]_vars

\* widths has one entry for every column of t and covers every cell of it
WidthsCover(widths, t) ==
    /\ Len(widths) = determineColumnCount(t)
    /\ \A i \in 1..Len(widths) :
         /\ i <= Len(t.headers) => widths[i] >= visualWidth(t.headers[i])
         /\ i <= Len(t.footer) => widths[i] >= visualWidth(t.footer[i])
         /\ \A r \in 1..Len(t.rows) :
              (~isSeparatorRow(t.rows[r]) /\ i <= Len(t.rows[r]))
                => widths[i] >= visualWidth(t.rows[r][i])

\* C30: right after a String call the column widths it has used have one
\* entry for every column and cover every header, row and footer cell of the
\* table, also when cells were added after an earlier String call.
C30_WidthsCoverContents ==
    (table.made /\ probe.fn = "String") => WidthsCover(table.columnWidths, table)

====
